---- MODULE Spec2Model ----
(***************************************************************************)
(* Model of the MCP client demo: the Agent base class (server registry,    *)
(* active selection, tool dispatch; api/Agents/Agent.py) and MCPClient     *)
(* (connection set-up; api/client.py).                                     *)
(*                                                                         *)
(* Python values:                                                          *)
(*   Optional[str]  is a sequence: <<>> is None, <<s>> is the string s;    *)
(*   a dict         is the sequence of its entries in insertion order;     *)
(*   a path string  is the sequence of its characters;                     *)
(*   a return value or a raised exception is a string in ret.              *)
(***************************************************************************)
EXTENDS Naturals, Sequences, FiniteSets

VARIABLES
    mcp_servers,        \* Agent.mcp_servers: entries [name, config] in insertion order
    active_mcp_server,  \* Agent.active_mcp_server: None or Some(name)
    session,            \* MCPClient.session: None or Some(session state)
    exit_stack,         \* MCPClient.exit_stack: the contexts entered, in order
    call,               \* the last call made: [op, server_name, config, tool_name, path]
    ret,                \* what the last call returned or raised
    pre,                \* the agent's state when the last call was made
    held,               \* the caller holds the mapping get_mcp_servers returned
    threads             \* concurrent callers: where each stands in its call

vars == <<mcp_servers, active_mcp_server, session, exit_stack, call, ret, pre,
          held, threads>>

\* ---------------------------------------------------------------- bounds
NameCount == 3
ConfigCount == 2
MaxInitLen == 2
MaxPathLen == 3

NamePool == <<"", "a", "b", "c", "d">>
Names == {NamePool[i] : i \in 1..NameCount}
Configs == 1..ConfigCount
ToolNames == {"echo", "add"}
PathChars == {".", "p", "y", "j", "s"}
Paths == UNION {[1..n -> PathChars] : n \in 0..MaxPathLen}

\* ---------------------------------------------------------------- Python values
None == <<>>
Some(x) == <<x>>
OptNames == {None} \cup {Some(n) : n \in Names}

\* bool(x) of an Optional[str]: None and the empty string are falsy
Truthy(x) == x # None /\ x[1] # ""

\* x or y
Or(x, y) == IF Truthy(x) THEN x ELSE y

\* s.endswith(suffix)
EndsWith(s, suffix) ==
    /\ Len(s) >= Len(suffix)
    /\ SubSeq(s, Len(s) - Len(suffix) + 1, Len(s)) = suffix

\* ---------------------------------------------------------------- dict
Keys(d) == {d[i].name : i \in 1..Len(d)}

Contains(d, k) == k \in Keys(d)

IndexOf(d, k) == CHOOSE i \in 1..Len(d) : d[i].name = k

\* d[k] = v that moves an existing key to the end, as d.pop(k); d[k] = v does
SetItem_moves_to_end(d, k, v) ==
    Append(SelectSeq(d, LAMBDA e : e.name # k), [name |-> k, config |-> v])

\* d[k] = v: an existing key keeps its position, a new key goes last
SetItem(d, k, v) ==
    IF Contains(d, k)
    THEN [d EXCEPT ![IndexOf(d, k)] = [name |-> k, config |-> v]]
    ELSE Append(d, [name |-> k, config |-> v])

\* d.pop(k), for a key of d
Pop(d, k) == SelectSeq(d, LAMBDA e : e.name # k)

\* the last key instead of the first: next(reversed(d)) if d else None
LastKeyOrNone(d) == IF Len(d) > 0 THEN Some(d[Len(d)].name) ELSE None

\* next(iter(d)) if d else None
FirstKeyOrNone(d) == IF Len(d) > 0 THEN Some(d[1].name) ELSE None

\* the dicts a caller can hand to the constructor
DistinctKeys(d) == \A i, j \in 1..Len(d) : d[i].name = d[j].name => i = j
Entries == [name : Names, config : Configs]
InitDicts == {d \in UNION {[1..n -> Entries] : n \in 0..MaxInitLen} : DistinctKeys(d)}

\* ---------------------------------------------------------------- calls
Call(op, server_name, config, tool_name, path) ==
    [op |-> op, server_name |-> server_name, config |-> config,
     tool_name |-> tool_name, path |-> path]

AgentState == [servers |-> mcp_servers, active |-> active_mcp_server]

\* two callers that may run registry calls at the same time
Callers == {"caller1", "caller2"}

\* a caller outside every call: no argument, no local value, nothing raised,
\* and it never ran while the other caller was inside a call
IdleThread == [pc |-> "idle", name |-> None, val |-> None, raised |-> "", raced |-> FALSE]

\* Agent.__init__ (mcp_servers or {}), MCPClient.__init__
Init ==
    /\ mcp_servers \in InitDicts
    /\ active_mcp_server = FirstKeyOrNone(mcp_servers)
    /\ session = None
    /\ exit_stack = <<>>
    /\ call = Call("__init__", None, 0, "", <<>>)
    /\ ret = "None"
    /\ pre = [servers |-> <<>>, active |-> None]
    /\ held = FALSE
    /\ threads = [t \in Callers |-> IdleThread]

\* add_mcp_server without the activation of lines 81-82
add_never_activates(server_name, config) ==
    /\ mcp_servers' = SetItem(mcp_servers, server_name, config)
    /\ call' = Call("add_mcp_server", Some(server_name), config, "", <<>>)
    /\ ret' = "None"
    /\ pre' = AgentState
    /\ UNCHANGED <<active_mcp_server, session, exit_stack>>

\* add_mcp_server without the guard of line 81
add_always_activates(server_name, config) ==
    /\ mcp_servers' = SetItem(mcp_servers, server_name, config)
    /\ active_mcp_server' = Some(server_name)
    /\ call' = Call("add_mcp_server", Some(server_name), config, "", <<>>)
    /\ ret' = "None"
    /\ pre' = AgentState
    /\ UNCHANGED <<session, exit_stack>>

\* add_mcp_server that also activates a server whose entry it updates
add_activates_on_update(server_name, config) ==
    /\ mcp_servers' = SetItem(mcp_servers, server_name, config)
    /\ active_mcp_server' =
          IF active_mcp_server = None \/ Contains(mcp_servers, server_name)
          THEN Some(server_name) ELSE active_mcp_server
    /\ call' = Call("add_mcp_server", Some(server_name), config, "", <<>>)
    /\ ret' = "None"
    /\ pre' = AgentState
    /\ UNCHANGED <<session, exit_stack>>

add_mcp_server(server_name, config) ==
    /\ mcp_servers' = SetItem(mcp_servers, server_name, config)
    /\ active_mcp_server' =
          IF active_mcp_server = None THEN Some(server_name) ELSE active_mcp_server
    /\ call' = Call("add_mcp_server", Some(server_name), config, "", <<>>)
    /\ ret' = "None"
    /\ pre' = AgentState
    /\ UNCHANGED <<session, exit_stack>>

\* remove_mcp_server choosing the successor before the pop of line 95
remove_successor_before_pop(server_name) ==
    /\ IF Contains(mcp_servers, server_name)
       THEN /\ mcp_servers' = Pop(mcp_servers, server_name)
            /\ active_mcp_server' =
                  IF active_mcp_server = Some(server_name)
                  THEN FirstKeyOrNone(mcp_servers)
                  ELSE active_mcp_server
            /\ ret' = "True"
       ELSE /\ UNCHANGED <<mcp_servers, active_mcp_server>>
            /\ ret' = "False"
    /\ call' = Call("remove_mcp_server", Some(server_name), 0, "", <<>>)
    /\ pre' = AgentState
    /\ UNCHANGED <<session, exit_stack>>

\* remove_mcp_server with the return of line 99 moved out of the if
remove_always_true(server_name) ==
    /\ IF Contains(mcp_servers, server_name)
       THEN /\ mcp_servers' = Pop(mcp_servers, server_name)
            /\ active_mcp_server' =
                  IF active_mcp_server = Some(server_name)
                  THEN FirstKeyOrNone(mcp_servers')
                  ELSE active_mcp_server
       ELSE UNCHANGED <<mcp_servers, active_mcp_server>>
    /\ ret' = "True"
    /\ call' = Call("remove_mcp_server", Some(server_name), 0, "", <<>>)
    /\ pre' = AgentState
    /\ UNCHANGED <<session, exit_stack>>

\* remove_mcp_server without the test of line 97: it reselects on every removal
remove_always_reselects(server_name) ==
    /\ IF Contains(mcp_servers, server_name)
       THEN /\ mcp_servers' = Pop(mcp_servers, server_name)
            /\ active_mcp_server' = FirstKeyOrNone(mcp_servers')
            /\ ret' = "True"
       ELSE /\ UNCHANGED <<mcp_servers, active_mcp_server>>
            /\ ret' = "False"
    /\ call' = Call("remove_mcp_server", Some(server_name), 0, "", <<>>)
    /\ pre' = AgentState
    /\ UNCHANGED <<session, exit_stack>>

remove_mcp_server(server_name) ==
    /\ IF Contains(mcp_servers, server_name)
       THEN /\ mcp_servers' = Pop(mcp_servers, server_name)
            /\ active_mcp_server' =
                  IF active_mcp_server = Some(server_name)
                  THEN FirstKeyOrNone(mcp_servers')
                  ELSE active_mcp_server
            /\ ret' = "True"
       ELSE /\ UNCHANGED <<mcp_servers, active_mcp_server>>
            /\ ret' = "False"
    /\ call' = Call("remove_mcp_server", Some(server_name), 0, "", <<>>)
    /\ pre' = AgentState
    /\ UNCHANGED <<session, exit_stack>>

\* set_active_mcp_server without the membership test of line 112
set_active_unchecked(server_name) ==
    /\ active_mcp_server' = Some(server_name)
    /\ ret' = "True"
    /\ call' = Call("set_active_mcp_server", Some(server_name), 0, "", <<>>)
    /\ pre' = AgentState
    /\ UNCHANGED <<mcp_servers, session, exit_stack>>

\* set_active_mcp_server without the return of line 115: it falls off the end
set_active_no_return_false(server_name) ==
    /\ IF Contains(mcp_servers, server_name)
       THEN /\ active_mcp_server' = Some(server_name)
            /\ ret' = "True"
       ELSE /\ UNCHANGED active_mcp_server
            /\ ret' = "None"
    /\ call' = Call("set_active_mcp_server", Some(server_name), 0, "", <<>>)
    /\ pre' = AgentState
    /\ UNCHANGED <<mcp_servers, session, exit_stack>>

set_active_mcp_server(server_name) ==
    /\ IF Contains(mcp_servers, server_name)
       THEN /\ active_mcp_server' = Some(server_name)
            /\ ret' = "True"
       ELSE /\ UNCHANGED active_mcp_server
            /\ ret' = "False"
    /\ call' = Call("set_active_mcp_server", Some(server_name), 0, "", <<>>)
    /\ pre' = AgentState
    /\ UNCHANGED <<mcp_servers, session, exit_stack>>

\* target_server = server_name or self.active_mcp_server
target_server(server_name) == Or(server_name, active_mcp_server)

\* the sequence without the membership test of lines 151-152
Dispatch_no_membership_test(target) ==
    IF ~Truthy(target) THEN "ValueError: no active server"
    ELSE "NotImplementedError"

\* what the resolve-and-validate sequence raises, or the stub's error past it
Dispatch(target) ==
    IF ~Truthy(target) THEN "ValueError: no active server"
    ELSE IF ~Contains(mcp_servers, target[1]) THEN "ValueError: not found"
    ELSE "NotImplementedError"

execute_tool(tool_name, server_name) ==
    /\ ret' = Dispatch(target_server(server_name))
    /\ call' = Call("execute_tool", server_name, 0, tool_name, <<>>)
    /\ pre' = AgentState
    /\ UNCHANGED <<mcp_servers, active_mcp_server, session, exit_stack>>

get_available_tools(server_name) ==
    /\ ret' = Dispatch(target_server(server_name))
    /\ call' = Call("get_available_tools", server_name, 0, "", <<>>)
    /\ pre' = AgentState
    /\ UNCHANGED <<mcp_servers, active_mcp_server, session, exit_stack>>

\* ---------------------------------------------------------------- MCPClient
\* the names bound when line 27 of connect_to_local_mcp runs: the module's
\* imports and class, and the method's parameters and assigned locals
ModuleNames ==
    {"Optional", "AsyncExitStack", "ClientSession", "StdioServerParameters",
     "stdio_client", "asyncio", "MCPClient"}
LocalNames ==
    {"self", "server_script_path", "is_python", "is_js", "command", "server_parameters"}
Bound(name) == name \in ModuleNames \cup LocalNames

PySuffix == <<".", "p", "y">>
JsSuffix == <<".", "j", "s">>

\* what the set-up steps of lines 27-31 can do once their arguments evaluate
SetupOutcomes == {"stdio_client fails", "ClientSession fails", "initialize fails", "ok"}

\* connect_to_local_mcp entering the transport before the suffix test of line 19
connect_transport_first(server_script_path) ==
    /\ exit_stack' = <<"stdio_client">>
    /\ ret' = IF EndsWith(server_script_path, PySuffix) \/ EndsWith(server_script_path, JsSuffix)
              THEN "NameError: server_params"
              ELSE "ValueError: not .py or .js"
    /\ call' = Call("connect_to_local_mcp", None, 0, "", server_script_path)
    /\ pre' = AgentState
    /\ UNCHANGED <<mcp_servers, active_mcp_server, session>>

connect_to_local_mcp(server_script_path) ==
    LET is_python == EndsWith(server_script_path, PySuffix)
        is_js == EndsWith(server_script_path, JsSuffix)
        transport == Append(exit_stack, "stdio_client")
        both == Append(transport, "ClientSession")
    IN  /\ IF ~(is_python \/ is_js)
           THEN /\ ret' = "ValueError: not .py or .js"
                /\ UNCHANGED <<session, exit_stack>>
           ELSE IF ~Bound("server_params")
           THEN /\ ret' = "NameError: server_params"
                /\ UNCHANGED <<session, exit_stack>>
           ELSE \E outcome \in SetupOutcomes :
                  CASE outcome = "stdio_client fails" ->
                         /\ ret' = "Error: stdio_client"
                         /\ UNCHANGED <<session, exit_stack>>
                    [] outcome = "ClientSession fails" ->
                         /\ ret' = "Error: ClientSession"
                         /\ exit_stack' = transport
                         /\ UNCHANGED session
                    [] outcome = "initialize fails" ->
                         /\ ret' = "Error: initialize"
                         /\ exit_stack' = both
                         /\ session' = Some("uninitialized")
                    [] outcome = "ok" ->
                         /\ ret' = "None"
                         /\ exit_stack' = both
                         /\ session' = Some("initialized")
        /\ call' = Call("connect_to_local_mcp", None, 0, "", server_script_path)
        /\ pre' = AgentState
        /\ UNCHANGED <<mcp_servers, active_mcp_server>>

\* get_mcp_servers returns self.mcp_servers itself, not a copy
get_mcp_servers ==
    /\ held' = TRUE
    /\ call' = Call("get_mcp_servers", None, 0, "", <<>>)
    /\ ret' = "self.mcp_servers"
    /\ pre' = AgentState
    /\ UNCHANGED <<mcp_servers, active_mcp_server, session, exit_stack, threads>>

\* the caller runs returned[k] = v on the mapping it was handed, which is
\* the agent's own dict
returned_setitem(k, v) ==
    /\ held
    /\ mcp_servers' = SetItem(mcp_servers, k, v)
    /\ call' = Call("returned.__setitem__", Some(k), v, "", <<>>)
    /\ ret' = "None"
    /\ pre' = AgentState
    /\ UNCHANGED <<active_mcp_server, session, exit_stack, held, threads>>

\* the caller runs del returned[k] on the mapping it was handed
returned_delitem(k) ==
    /\ held
    /\ IF Contains(mcp_servers, k)
       THEN /\ mcp_servers' = Pop(mcp_servers, k)
            /\ ret' = "None"
       ELSE /\ UNCHANGED mcp_servers
            /\ ret' = "KeyError"
    /\ call' = Call("returned.__delitem__", Some(k), 0, "", <<>>)
    /\ pre' = AgentState
    /\ UNCHANGED <<active_mcp_server, session, exit_stack, held, threads>>

\* the calls on an Agent
Next ==
    \/ \E n \in Names, c \in Configs : add_mcp_server(n, c) /\ UNCHANGED <<held, threads>>
    \/ \E n \in Names : remove_mcp_server(n) /\ UNCHANGED <<held, threads>>
    \/ \E n \in Names : set_active_mcp_server(n) /\ UNCHANGED <<held, threads>>
    \/ \E t \in ToolNames, n \in OptNames : execute_tool(t, n) /\ UNCHANGED <<held, threads>>
    \/ \E n \in OptNames : get_available_tools(n) /\ UNCHANGED <<held, threads>>

Spec == Init /\ [][Next]_vars

\* the calls on an Agent whose caller also uses what get_mcp_servers returns
AliasNext ==
    \/ Next
    \/ get_mcp_servers
    \/ \E k \in Names, v \in Configs : returned_setitem(k, v)
    \/ \E k \in Names : returned_delitem(k)

AliasSpec == Init /\ [][AliasNext]_vars

\* ---------------------------------------------------------------- callers in parallel
\* The registry methods hold no lock, so two callers' statements interleave.
\* Each action below is one statement (or one test) of a method, run by
\* caller t; the other caller is u.
Other(t) == CHOOSE u \in Callers : u # t

\* caller t runs a step: it has raced once it runs while u is inside a call
Step(t, pc, name, val, raised) ==
    threads' = [threads EXCEPT ![t] =
                  [pc |-> pc, name |-> IF pc = "idle" THEN None ELSE name,
                   val |-> val, raised |-> raised,
                   raced |-> threads[t].raced \/ threads[Other(t)].pc # "idle"]]

Frame == UNCHANGED <<session, exit_stack, call, ret, pre, held>>

\* line 80: self.mcp_servers[server_name] = config
par_add_setitem(t, server_name, config) ==
    /\ threads[t].pc = "idle"
    /\ mcp_servers' = SetItem(mcp_servers, server_name, config)
    /\ Step(t, "add_test", Some(server_name), None, "")
    /\ UNCHANGED active_mcp_server /\ Frame

\* line 81: if self.active_mcp_server is None
par_add_test(t) ==
    /\ threads[t].pc = "add_test"
    /\ Step(t, IF active_mcp_server = None THEN "add_assign" ELSE "idle",
            threads[t].name, None, "")
    /\ UNCHANGED <<mcp_servers, active_mcp_server>> /\ Frame

\* line 82: self.active_mcp_server = server_name
par_add_assign(t) ==
    /\ threads[t].pc = "add_assign"
    /\ active_mcp_server' = threads[t].name
    /\ Step(t, "idle", threads[t].name, None, "")
    /\ UNCHANGED mcp_servers /\ Frame

\* line 94: if server_name in self.mcp_servers (else line 100)
par_remove_test(t, server_name) ==
    /\ threads[t].pc = "idle"
    /\ Step(t, IF Contains(mcp_servers, server_name) THEN "remove_pop" ELSE "idle",
            Some(server_name), None, "")
    /\ UNCHANGED <<mcp_servers, active_mcp_server>> /\ Frame

\* line 95: self.mcp_servers.pop(server_name), KeyError for a missing key
par_remove_pop(t) ==
    /\ threads[t].pc = "remove_pop"
    /\ IF Contains(mcp_servers, threads[t].name[1])
       THEN /\ mcp_servers' = Pop(mcp_servers, threads[t].name[1])
            /\ Step(t, "remove_compare", threads[t].name, None, "")
       ELSE /\ UNCHANGED mcp_servers
            /\ Step(t, "idle", threads[t].name, None, "KeyError")
    /\ UNCHANGED active_mcp_server /\ Frame

\* line 97: if self.active_mcp_server == server_name (else line 99)
par_remove_compare(t) ==
    /\ threads[t].pc = "remove_compare"
    /\ Step(t, IF active_mcp_server = threads[t].name THEN "remove_truth" ELSE "idle",
            threads[t].name, None, "")
    /\ UNCHANGED <<mcp_servers, active_mcp_server>> /\ Frame

\* line 98, the condition: ... if self.mcp_servers else None
par_remove_truth(t) ==
    /\ threads[t].pc = "remove_truth"
    /\ Step(t, IF Len(mcp_servers) > 0 THEN "remove_next" ELSE "remove_assign",
            threads[t].name, None, "")
    /\ UNCHANGED <<mcp_servers, active_mcp_server>> /\ Frame

\* line 98, the value: next(iter(self.mcp_servers)), StopIteration on an
\* empty dict
par_remove_next(t) ==
    /\ threads[t].pc = "remove_next"
    /\ IF Len(mcp_servers) > 0
       THEN Step(t, "remove_assign", threads[t].name, Some(mcp_servers[1].name), "")
       ELSE Step(t, "idle", threads[t].name, None, "StopIteration")
    /\ UNCHANGED <<mcp_servers, active_mcp_server>> /\ Frame

\* line 98, the assignment: self.active_mcp_server = ...
par_remove_assign(t) ==
    /\ threads[t].pc = "remove_assign"
    /\ active_mcp_server' = threads[t].val
    /\ Step(t, "idle", threads[t].name, None, "")
    /\ UNCHANGED mcp_servers /\ Frame

\* set_active_mcp_server's test without the membership test of line 112
par_set_active_untested(t, server_name) ==
    /\ threads[t].pc = "idle"
    /\ Step(t, "set_active_assign", Some(server_name), None, "")
    /\ UNCHANGED <<mcp_servers, active_mcp_server>> /\ Frame

\* line 112: if server_name in self.mcp_servers (else line 115)
par_set_active_test(t, server_name) ==
    /\ threads[t].pc = "idle"
    /\ Step(t, IF Contains(mcp_servers, server_name) THEN "set_active_assign" ELSE "idle",
            Some(server_name), None, "")
    /\ UNCHANGED <<mcp_servers, active_mcp_server>> /\ Frame

\* line 113: self.active_mcp_server = server_name
par_set_active_assign(t) ==
    /\ threads[t].pc = "set_active_assign"
    /\ active_mcp_server' = threads[t].name
    /\ Step(t, "idle", threads[t].name, None, "")
    /\ UNCHANGED mcp_servers /\ Frame

\* the configs play no part in how the statements interleave: one is enough
ParConfigs == {CHOOSE c \in Configs : TRUE}

ParNext ==
    \/ \E t \in Callers, n \in Names, c \in ParConfigs : par_add_setitem(t, n, c)
    \/ \E t \in Callers : par_add_test(t)
    \/ \E t \in Callers : par_add_assign(t)
    \/ \E t \in Callers, n \in Names : par_remove_test(t, n)
    \/ \E t \in Callers : par_remove_pop(t)
    \/ \E t \in Callers : par_remove_compare(t)
    \/ \E t \in Callers : par_remove_truth(t)
    \/ \E t \in Callers : par_remove_next(t)
    \/ \E t \in Callers : par_remove_assign(t)
    \/ \E t \in Callers, n \in Names : par_set_active_test(t, n)
    \/ \E t \in Callers : par_set_active_assign(t)

ParInit == Init /\ \A i \in 1..Len(mcp_servers) : mcp_servers[i].config \in ParConfigs

ParSpec == ParInit /\ [][ParNext]_vars

\* the calls on an MCPClient, which shares no state with the Agent
ClientNext == \E p \in Paths : connect_to_local_mcp(p) /\ UNCHANGED <<held, threads>>

\* an MCPClient next to an Agent constructed without servers
ClientInit == Init /\ mcp_servers = <<>>

ClientSpec == ClientInit /\ [][ClientNext]_vars

\* ================================================================ claims
NamesOf(d) == [i \in 1..Len(d) |-> d[i].name]
ToolOps == {"execute_tool", "get_available_tools"}
ValueErrors == {"ValueError: no active server", "ValueError: not found"}
Raised == ValueErrors \cup {"NotImplementedError"}
CalledName == call.server_name[1]

\* C1: after any sequence of add_mcp_server and remove_mcp_server calls, the
\* active selection is None exactly when the registry is empty.
C1_ActiveNoneIffEmpty ==
    (active_mcp_server = None) <=> (mcp_servers = <<>>)

\* a removal has emptied a registry that held servers
C1_Witness ==
    /\ call.op = "remove_mcp_server"
    /\ ret = "True"
    /\ pre.servers # <<>>
    /\ mcp_servers = <<>>
    /\ active_mcp_server = None

\* C2: the active selection is None or a key of the registry, whatever add,
\* remove and set_active calls were made.
C2_ActiveIsRegistered ==
    active_mcp_server = None \/ active_mcp_server[1] \in Keys(mcp_servers)

\* set_active has moved the selection to another registered server
C2_Witness ==
    /\ call.op = "set_active_mcp_server"
    /\ ret = "True"
    /\ pre.active # None
    /\ active_mcp_server # pre.active
    /\ active_mcp_server[1] \in Keys(mcp_servers)

\* C3: add_mcp_server on an empty registry makes the added name active; with
\* an active server already set it leaves the selection alone, for a new name
\* and for an overwrite.
C3_AddActivatesOnlyFirst ==
    call.op = "add_mcp_server" =>
        /\ pre.servers = <<>> => active_mcp_server = call.server_name
        /\ pre.active # None => active_mcp_server = pre.active

\* a second, new server was added while another one was active
C3_Witness ==
    /\ call.op = "add_mcp_server"
    /\ pre.active # None
    /\ CalledName \notin Keys(pre.servers)
    /\ Len(mcp_servers) = Len(pre.servers) + 1
    /\ active_mcp_server = pre.active

\* C4: removing the active server selects a member of the remaining registry,
\* or None when it was the only server; and from the empty registry
\* add a, add b, remove a, remove b gives active a, a, b, None (each step
\* starts in the state the step before it ends in).
C4_RemoveActiveReselects ==
    /\ (call.op = "remove_mcp_server" /\ pre.active = call.server_name) =>
          IF Keys(pre.servers) \ {CalledName} # {}
          THEN /\ active_mcp_server # None
               /\ active_mcp_server[1] \in Keys(pre.servers) \ {CalledName}
               /\ active_mcp_server[1] \in Keys(mcp_servers)
          ELSE active_mcp_server = None
    /\ (call.op = "add_mcp_server" /\ CalledName = "a" /\ pre.servers = <<>>) =>
          (active_mcp_server = Some("a") /\ NamesOf(mcp_servers) = <<"a">>)
    /\ (/\ call.op = "add_mcp_server" /\ CalledName = "b"
        /\ NamesOf(pre.servers) = <<"a">> /\ pre.active = Some("a")) =>
          (active_mcp_server = Some("a") /\ NamesOf(mcp_servers) = <<"a", "b">>)
    /\ (/\ call.op = "remove_mcp_server" /\ CalledName = "a"
        /\ NamesOf(pre.servers) = <<"a", "b">> /\ pre.active = Some("a")) =>
          (active_mcp_server = Some("b") /\ NamesOf(mcp_servers) = <<"b">>)
    /\ (/\ call.op = "remove_mcp_server" /\ CalledName = "b"
        /\ NamesOf(pre.servers) = <<"b">> /\ pre.active = Some("b")) =>
          (active_mcp_server = None /\ mcp_servers = <<>>)

\* the active server a was removed while b remained
C4_Witness ==
    /\ call.op = "remove_mcp_server"
    /\ call.server_name = Some("a")
    /\ NamesOf(pre.servers) = <<"a", "b">>
    /\ pre.active = Some("a")
    /\ active_mcp_server = Some("b")

\* C5: set_active_mcp_server returns False and changes nothing for a name that
\* is not registered; it returns True and selects the name, leaving the
\* registry alone, for a registered one.
C5_SetActive ==
    call.op = "set_active_mcp_server" =>
        IF CalledName \in Keys(pre.servers)
        THEN /\ ret = "True"
             /\ active_mcp_server = call.server_name
             /\ mcp_servers = pre.servers
        ELSE /\ ret = "False"
             /\ active_mcp_server = pre.active
             /\ mcp_servers = pre.servers

\* set_active was refused for an unregistered name while a server was active
C5_Witness ==
    /\ call.op = "set_active_mcp_server"
    /\ CalledName \notin Keys(pre.servers)
    /\ pre.active # None
    /\ ret = "False"
    /\ active_mcp_server = pre.active

\* C6: execute_tool and get_available_tools raise ValueError when no
\* server_name is given and no server is active, and for every given
\* server_name that is not registered, whatever the active selection is.
C6_ConfigurationError ==
    call.op \in ToolOps =>
        /\ (call.server_name = None /\ pre.active = None) => ret \in ValueErrors
        /\ (call.server_name # None /\ CalledName \notin Keys(pre.servers)) =>
              ret \in ValueErrors

\* the target a tool call resolves to: the given name, else the active one
C7_Resolved == IF call.server_name # None THEN call.server_name ELSE pre.active

\* C7 as stated: a tool call whose target is a key of the registry is
\* forwarded to that server's session and returns the session's result.
C7_ForwardsToSession ==
    (/\ call.op \in ToolOps
     /\ C7_Resolved # None
     /\ C7_Resolved[1] \in Keys(pre.servers)) => ret \notin Raised

\* C7 as amended: a tool call is never forwarded and never returns: it raises
\* NotImplementedError when (server_name or active) is a non-empty registered
\* name, and ValueError in every other case; agent and client keep their state.
C7_RaisesNotImplemented ==
    call.op \in ToolOps =>
        LET target == IF call.server_name # None /\ call.server_name # Some("")
                      THEN call.server_name ELSE pre.active
        IN  /\ IF target # None /\ target # Some("") /\ target[1] \in Keys(pre.servers)
               THEN ret = "NotImplementedError"
               ELSE ret \in ValueErrors
            /\ AgentState = pre
            /\ session = None
            /\ exit_stack = <<>>

\* execute_tool was called with an explicit registered server
C7_Witness ==
    /\ call.op = "execute_tool"
    /\ call.server_name # None
    /\ CalledName # ""
    /\ CalledName \in Keys(pre.servers)
    /\ ret = "NotImplementedError"

\* the path does not end in .py or .js, read off its last three characters
C9_Unsupported(p) ==
    \/ Len(p) < 3
    \/ <<p[Len(p) - 2], p[Len(p) - 1], p[Len(p)]>> \notin {PySuffix, JsSuffix}

\* C9: connect_to_local_mcp with a path that ends in neither .py nor .js
\* raises ValueError with nothing on the exit stack and session still None.
C9_UnsupportedBeforeAcquire ==
    (call.op = "connect_to_local_mcp" /\ C9_Unsupported(call.path)) =>
        /\ ret = "ValueError: not .py or .js"
        /\ exit_stack = <<>>
        /\ session = None

\* connect was refused for the path ".ps"
C9_Witness ==
    /\ call.op = "connect_to_local_mcp"
    /\ call.path = <<".", "p", "s">>
    /\ ret = "ValueError: not .py or .js"
    /\ exit_stack = <<>>
    /\ session = None

\* C10: connect_to_local_mcp with a .py or .js path completes with the stdio
\* transport entered first, the session over it second, and self.session an
\* initialized session.
C10_ConnectCompletes ==
    (call.op = "connect_to_local_mcp" /\ ~C9_Unsupported(call.path)) =>
        /\ ret = "None"
        /\ exit_stack = <<"stdio_client", "ClientSession">>
        /\ session = Some("initialized")

\* C13: remove_mcp_server returns True exactly when the name was a key before
\* the call, and the name is then no key; for an absent name it returns False
\* and leaves registry and active selection as they were.
C13_RemoveReturn ==
    call.op = "remove_mcp_server" =>
        IF CalledName \in Keys(pre.servers)
        THEN ret = "True" /\ CalledName \notin Keys(mcp_servers)
        ELSE ret = "False" /\ AgentState = pre

\* an absent name was removed from a registry that holds servers
C13_Witness ==
    /\ call.op = "remove_mcp_server"
    /\ CalledName \notin Keys(pre.servers)
    /\ pre.servers # <<>>
    /\ ret = "False"
    /\ AgentState = pre

\* C14: add_mcp_server never raises, and a second add_mcp_server call with the
\* arguments of the call just made leaves registry and active selection as the
\* first call left them.
C14_AddIdempotent ==
    [][/\ call'.op = "add_mcp_server" => ret' = "None"
       /\ (call.op = "add_mcp_server" /\ call' = call) =>
             /\ mcp_servers' = mcp_servers
             /\ active_mcp_server' = active_mcp_server]_vars

\* add_mcp_server was repeated on the entry it had just written, while
\* another server was active
C14_Witness ==
    /\ call.op = "add_mcp_server"
    /\ \E i \in 1..Len(pre.servers) :
          pre.servers[i] = [name |-> CalledName, config |-> call.config]
    /\ pre.active # call.server_name
    /\ AgentState = pre

\* C16: a tool call given a server_name, whatever string it is, is decided by
\* that name alone: it passes validation when the name is registered and is
\* refused with ValueError when it is not; the active server never stands in.
C16_ExplicitNameUsed ==
    (call.op \in ToolOps /\ call.server_name # None) =>
        IF CalledName \in Keys(pre.servers)
        THEN ret = "NotImplementedError"
        ELSE ret \in ValueErrors

\* C17: right after construction the registry is the mapping handed in (empty
\* for no mapping or an empty one), and the active selection is None for an
\* empty registry and the first-inserted key otherwise.
C17_ConstructorState ==
    call.op = "__init__" =>
        /\ mcp_servers \in InitDicts
        /\ mcp_servers = <<>> => active_mcp_server = None
        /\ mcp_servers # <<>> => active_mcp_server = Some(mcp_servers[1].name)

\* an agent constructed with two servers
C17_Witness ==
    /\ call.op = "__init__"
    /\ Len(mcp_servers) = 2
    /\ active_mcp_server = Some(mcp_servers[1].name)
    /\ active_mcp_server # Some(mcp_servers[2].name)

\* C18: removing a registered server that is not the active one leaves the
\* active selection alone and takes exactly that entry out of the registry:
\* every other entry is still there with its config.
C18_RemoveInactiveFrame ==
    (/\ call.op = "remove_mcp_server"
     /\ CalledName \in Keys(pre.servers)
     /\ pre.active # call.server_name) =>
        /\ active_mcp_server = pre.active
        /\ CalledName \notin Keys(mcp_servers)
        /\ Len(mcp_servers) = Len(pre.servers) - 1
        /\ \A i \in 1..Len(pre.servers) :
              pre.servers[i].name # CalledName =>
                 \E j \in 1..Len(mcp_servers) : mcp_servers[j] = pre.servers[i]

\* the first-inserted of three servers was removed while the last was active
C18_Witness ==
    /\ call.op = "remove_mcp_server"
    /\ Len(pre.servers) = 3
    /\ CalledName = pre.servers[1].name
    /\ pre.active = Some(pre.servers[3].name)
    /\ active_mcp_server = pre.active
    /\ Len(mcp_servers) = 2

\* a sequence of names without the name n
C19_Without(s, n) == SelectSeq(s, LAMBDA x : x # n)

\* C19: the registry keeps its names in the order of their insertion (a new
\* name goes last, an overwrite leaves the name where it is, a removal keeps
\* the order of the others, no other call touches it), and the successor of a
\* removed active server is the earliest-inserted of the servers that remain.
C19_EarliestInsertedSuccessor ==
    /\ call.op = "add_mcp_server" =>
          NamesOf(mcp_servers) =
             IF CalledName \in Keys(pre.servers)
             THEN NamesOf(pre.servers)
             ELSE Append(NamesOf(pre.servers), CalledName)
    /\ call.op = "remove_mcp_server" =>
          NamesOf(mcp_servers) = C19_Without(NamesOf(pre.servers), CalledName)
    /\ call.op \in ToolOps \cup {"set_active_mcp_server"} => mcp_servers = pre.servers
    /\ (/\ call.op = "remove_mcp_server"
        /\ pre.active = call.server_name
        /\ Len(pre.servers) >= 2) =>
          active_mcp_server = Some(C19_Without(NamesOf(pre.servers), CalledName)[1])

\* the active server, second of three by insertion, was removed and the
\* first-inserted one took over
C19_Witness ==
    /\ call.op = "remove_mcp_server"
    /\ Len(pre.servers) = 3
    /\ CalledName = pre.servers[2].name
    /\ pre.active = call.server_name
    /\ active_mcp_server = Some(pre.servers[1].name)

ReturnedOps == {"returned.__setitem__", "returned.__delitem__"}

\* C12: inserting or deleting a key in the mapping get_mcp_servers returned
\* changes neither the agent's registry nor its active selection, and the
\* active selection stays None or a registered name.
C12_ReturnedIsDetached ==
    /\ call.op \in ReturnedOps => AgentState = pre
    /\ active_mcp_server = None \/ active_mcp_server[1] \in Keys(mcp_servers)

AllIdle == \A t \in Callers : threads[t].pc = "idle"
Raced == \E t \in Callers : threads[t].raced
Dangling == active_mcp_server # None /\ active_mcp_server[1] \notin Keys(mcp_servers)
SomeRaised == \E t \in Callers : threads[t].raised # ""

\* C15: with every registry call run to its end before the next one starts,
\* no call raises and, between calls, the active selection never names an
\* unregistered server; such a state takes two calls whose statements
\* interleaved, and then it is reachable.
C15_OnlyRacesBreakRegistry ==
    (AllIdle /\ ~Raced) => (~Dangling /\ ~SomeRaised)

\* both callers are done and the active selection names a server that is not
\* registered: a set_active passed its test, the other caller removed the
\* server, and the assignment followed
C15_Witness ==
    /\ AllIdle
    /\ Raced
    /\ Dangling
====
